---- MODULE Spec2Model ----
(***************************************************************************)
(* QueueHandler (src/index.js) over one redis hash store.                  *)
(*                                                                         *)
(* The backend adapter (./redis_io) is not part of the sources: it is      *)
(* modelled from its interface (hash get/set/delete/keys, each answering   *)
(* through a callback once, later than the call).  A hash field holds the  *)
(* stored form of what was set: a non-empty string.                        *)
(***************************************************************************)
EXTENDS Integers, Sequences, FiniteSets, TLC

VARIABLES
    hash,       \* the backend: <<group, field>> -> stored payload
    now,        \* the wall clock, in seconds
    inst,       \* the QueueHandler instances
    calls,      \* the public operations invoked, one per slot
    inflight,   \* the adapter calls issued and not yet answered
    stable      \* ghost: what each data field is known to hold

vars == <<hash, now, inst, calls, inflight, stable>>

----------------------------------------------------------------------------
(* Bounds *)

MaxInstances == 2
MaxCalls == 2
MaxTime == 1
MaxIdentifiers == 2

Instances == 1..MaxInstances
CallIds == 1..MaxCalls

----------------------------------------------------------------------------
(* JavaScript values *)

\* A string is the sequence of its characters; " " is whitespace.
IsBlankChar(ch) == ch = " "

RECURSIVE TrimLeft(_)
TrimLeft(s) ==
    IF s = <<>> THEN <<>>
    ELSE IF IsBlankChar(Head(s)) THEN TrimLeft(Tail(s)) ELSE s

RECURSIVE TrimRight(_)
TrimRight(s) ==
    IF s = <<>> THEN <<>>
    ELSE IF IsBlankChar(s[Len(s)]) THEN TrimRight(SubSeq(s, 1, Len(s) - 1)) ELSE s

\* String.prototype.trim
Trim(s) == TrimRight(TrimLeft(s))

\* A request field that should be a string: undefined, a string, or a number.
Undefined == [t |-> "undefined", s |-> <<>>]
Str(s) == [t |-> "string", s |-> s]
Num == [t |-> "number", s |-> <<>>]

\* !x || typeof x !== "string" || x.trim() === ""
NotAString(x) == x.t # "string" \/ x.s = <<>> \/ Trim(x.s) = <<>>

\* The value of an insert: undefined, or an object with a body and a targetType.
NoValue == [t |-> "undefined", targetType |-> "undefined", body |-> ""]
Obj(body, targetType) == [t |-> "object", targetType |-> targetType, body |-> body]

\* The store filter: undefined, an array of names, or something that is no array.
NoStore == [t |-> "undefined", a |-> <<>>]
StoreList(a) == [t |-> "array", a |-> a]
StoreString == [t |-> "string", a |-> <<>>]

\* A request object; the missing request is NoRequest.
Request(identifier, key, value, store) ==
    [t |-> "object", identifier |-> identifier, key |-> key, value |-> value, store |-> store]
NoRequest ==
    [t |-> "undefined", identifier |-> Undefined, key |-> Undefined, value |-> NoValue,
     store |-> NoStore]

\* Object.keys(fields).length === 0
HasNoKeys(fields) ==
    /\ fields.identifier.t = "undefined"
    /\ fields.key.t = "undefined"
    /\ fields.value.t = "undefined"
    /\ fields.store.t = "undefined"

\* Errors: a message and the identifier it quotes.
Err(msg, arg) == [msg |-> msg, arg |-> arg]
NoError == Err("null", <<>>)
BackendError == Err("backend error", <<>>)
NotRegistered(identifier) ==
    Err("This service is not registered with redis store for the identifier", identifier)
NotValidStore == Err("Not a valid queue store", <<>>)

----------------------------------------------------------------------------
(* The backend adapter *)

servicesInfo == <<"registeredServices">>

\* What a hash field holds: nothing, the stored form of an object, or a date string.
Nil == [t |-> "nil", of |-> NoValue, at |-> 0]
Serialize(value) == [t |-> "json", of |-> value, at |-> 0]

\* moment(new Date()).format("YYYY-MM-DDTHH:mm:ss"), as stored
FormatDate(time) == [t |-> "date", of |-> NoValue, at |-> time]

\* response is truthy; response.length
Truthy(payload) == payload.t # "nil"
Length(payload) == IF payload.t = "nil" THEN 0 ELSE 1

getHashObject(h, group, field) ==
    IF <<group, field>> \in DOMAIN h THEN h[<<group, field>>] ELSE Nil

setHashObject(h, group, field, payload) ==
    [slot \in DOMAIN h \cup {<<group, field>>} |->
        IF slot = <<group, field>> THEN payload ELSE h[slot]]

deleteHashKey(h, group, field) ==
    [slot \in DOMAIN h \ {<<group, field>>} |-> h[slot]]

getHashKey(h, group) == {slot[2] : slot \in {x \in DOMAIN h : x[1] = group}}

\* An adapter call in flight; key is the field the operation asked for.
\* Ghosts of a timestamp write: the clock (at) and the override slot of the
\* instance (over) when the write was issued.
AdapterCall(owner, i, c, sub, leg, cmd, group, field, value, carry) ==
    [owner |-> owner, inst |-> i, call |-> c, sub |-> sub, leg |-> leg, cmd |-> cmd,
     group |-> group, field |-> field, key |-> field, value |-> value, carry |-> carry,
     at |-> 0, over |-> [set |-> FALSE, at |-> 0]]

----------------------------------------------------------------------------
(* ValidateStoreFields.validateQueueFields *)

CallbackExpected == Err("Callback is expected and must be a function", <<>>)
QueueDataInvalid == Err("'Queue data' is either missing or not in the specified format", <<>>)
IdentifierInvalid == Err("'Identifier' is either missing or not in the specified format", <<>>)
KeyInvalid == Err("'Key' is either missing or not in the specified format", <<>>)
StoreInvalid == Err("'Store' value is either blank or not in the specified format", <<>>)
ValueInvalid == Err("'Value' is either missing or not in the specified format", <<>>)
TargetTypeInvalid == Err("'Target type' is either missing or not in the specified format", <<>>)

\* The callback check comes first and throws; see EndsAtOnce.
CallbackMissing(callback) == callback # "function"

\* Mutant: the key is not validated.
validateQueueFields_KeyUnchecked(fields, skipKey) ==
    IF fields.t # "object" \/ HasNoKeys(fields) THEN QueueDataInvalid
    ELSE IF NotAString(fields.identifier) THEN IdentifierInvalid
    ELSE IF fields.store.t # "undefined" /\ (fields.store.t # "array" \/ fields.store.a = <<>>)
        THEN StoreInvalid
    ELSE NoError

\* Mutant: an empty store array is let through.
validateQueueFields_EmptyStoreAllowed(fields, skipKey) ==
    IF fields.t # "object" \/ HasNoKeys(fields) THEN QueueDataInvalid
    ELSE IF NotAString(fields.identifier) THEN IdentifierInvalid
    ELSE IF ~skipKey /\ NotAString(fields.key) THEN KeyInvalid
    ELSE IF fields.store.t # "undefined" /\ fields.store.t # "array" THEN StoreInvalid
    ELSE NoError

\* The validation result once the callback is known to be a function:
\* NoError stands for the return value false.
validateQueueFields(fields, skipKey) ==
    IF fields.t # "object" \/ HasNoKeys(fields) THEN QueueDataInvalid
    ELSE IF NotAString(fields.identifier) THEN IdentifierInvalid
    ELSE IF ~skipKey /\ NotAString(fields.key) THEN KeyInvalid
    ELSE IF fields.store.t # "undefined" /\ (fields.store.t # "array" \/ fields.store.a = <<>>)
        THEN StoreInvalid
    ELSE NoError

----------------------------------------------------------------------------
(* The constructor *)

ConfigMissing == Err("'Connection config' is either missing or not in the specified format", <<>>)
NoQueueStore == Err("Minimum one valid queue store is required", <<>>)

\* connectionConfig: missing, {}, an object no store of which is recognised,
\* or {redis: {queueConnector, serviceName, identifierSet}}.
Config(t, serviceName, identifierSet) ==
    [t |-> t, serviceName |-> serviceName, identifierSet |-> identifierSet]

\* Mutant: the identifiers are pushed as configured, untrimmed.
RECURSIVE RegisteredIdentifiers_Untrimmed(_)
RegisteredIdentifiers_Untrimmed(identifierSet) ==
    IF identifierSet = <<>> THEN <<>>
    ELSE IF Trim(Head(identifierSet)) = <<>>
        THEN RegisteredIdentifiers_Untrimmed(Tail(identifierSet))
        ELSE <<Head(identifierSet)>> \o RegisteredIdentifiers_Untrimmed(Tail(identifierSet))

\* The identifiers pushed to connectionHandler.redis.identifierSet, in order.
RECURSIVE RegisteredIdentifiers(_)
RegisteredIdentifiers(identifierSet) ==
    IF identifierSet = <<>> THEN <<>>
    ELSE IF Trim(Head(identifierSet)) = <<>>
        THEN RegisteredIdentifiers(Tail(identifierSet))
        ELSE <<Trim(Head(identifierSet))>> \o RegisteredIdentifiers(Tail(identifierSet))

\* `${serviceName}_${identifier}`
MetaField(serviceName, identifier) == serviceName \o <<"_">> \o identifier

NoDate == [set |-> FALSE, at |-> 0]

\* Mutant: the override is not set.
SomeDate_Unset(time) == NoDate

SomeDate(time) == [set |-> TRUE, at |-> time]

\* An instance: connectionHandler.redis, redisReadDate, the state of the
\* registration, and ghosts: the configured identifierSet, the registrations
\* present when the constructor ran (seen), whether no other registration was
\* in flight then (quiet), and the adapter failures of its registration.
NoInstance ==
    [status |-> "none", error |-> NoError, serviceName |-> <<>>, identifierSet |-> <<>>,
     date |-> 0, redisReadDate |-> NoDate, left |-> 0,
     config |-> <<>>, seen |-> << >>, quiet |-> FALSE,
     lookupFailed |-> FALSE, writeFailed |-> FALSE]

\* The fields of the reserved group registeredServices.
Registered(h) == [slot \in {x \in DOMAIN h : x[1] = servicesInfo} |-> h[slot]]

\* The positions of the configured identifiers that are not blank.
Legs(identifierSet) == {n \in 1..Len(identifierSet) : Trim(identifierSet[n]) # <<>>}

\* The registration lookups the constructor issues before it returns.
RegistrationLookups(i, config) ==
    {AdapterCall("ctor", i, 0, "outer", n, "hget", servicesInfo,
                 MetaField(config.serviceName, Trim(config.identifierSet[n])), Nil, Nil) :
        n \in Legs(config.identifierSet)}

\* Instances are numbered in the order of their construction.
Construct(i, config) ==
    /\ inst[i].status = "none"
    /\ \A j \in Instances : j < i => inst[j].status # "none"
    /\ IF config.t \in {"undefined", "empty"}
       THEN /\ inst' = [inst EXCEPT ![i].status = "rejected", ![i].error = ConfigMissing]
            /\ UNCHANGED inflight
       ELSE IF config.t = "nostore"
       THEN /\ inst' = [inst EXCEPT ![i].status = "rejected", ![i].error = NoQueueStore]
            /\ UNCHANGED inflight
       ELSE /\ inst' = [inst EXCEPT ![i] =
                   [status |-> IF Legs(config.identifierSet) = {} THEN "ready" ELSE "registering",
                    error |-> NoError,
                    serviceName |-> config.serviceName,
                    identifierSet |-> RegisteredIdentifiers(config.identifierSet),
                    date |-> now,
                    redisReadDate |-> NoDate,
                    left |-> Cardinality(Legs(config.identifierSet)),
                    config |-> config.identifierSet,
                    seen |-> Registered(hash),
                    quiet |-> \A x \in inflight : x.owner # "ctor",
                    lookupFailed |-> FALSE,
                    writeFailed |-> FALSE]]
            /\ inflight' = inflight \cup RegistrationLookups(i, config)
    /\ UNCHANGED <<hash, now, calls, stable>>

\* innerAsyncEachCallback(err) of one identifier, then async.each's and
\* async.eachOf's final callbacks: the first error is thrown, the last
\* success completes the registration.
RegistrationStep(instance, err) ==
    IF err # NoError
    THEN IF instance.status = "registering"
         THEN [instance EXCEPT !.status = "raised", !.error = err]
         ELSE instance
    ELSE IF instance.left = 1 /\ instance.status = "registering"
         THEN [instance EXCEPT !.status = "ready", !.left = 0]
         ELSE [instance EXCEPT !.left = instance.left - 1]

\* Mutant: the error of the write is handed on.
RegistrationWriteError_Passed(err) == err

\* The error the second waterfall step hands on when the write fails.
RegistrationWriteError(err) == NoError

\* Mutant: the lookup's result is not looked at.
AlreadyRegistered_Never(result) == FALSE

\* if(result): the identifier was registered before.
AlreadyRegistered(result) == Truthy(result)

\* The answer to a registration lookup.
RegLookupDone(x, ok) ==
    /\ x \in inflight /\ x.owner = "ctor" /\ x.cmd = "hget"
    /\ LET result == getHashObject(hash, x.group, x.field) IN
       IF ~ok
       THEN /\ inst' = [inst EXCEPT ![x.inst] =
                   RegistrationStep([@ EXCEPT !.lookupFailed = TRUE], BackendError)]
            /\ inflight' = inflight \ {x}
       ELSE IF AlreadyRegistered(result)
       THEN /\ inst' = [inst EXCEPT ![x.inst] = RegistrationStep(@, NoError)]
            /\ inflight' = inflight \ {x}
       ELSE /\ inflight' = (inflight \ {x}) \cup
                   {[x EXCEPT !.cmd = "hset", !.value = FormatDate(inst[x.inst].date)]}
            /\ UNCHANGED inst
    /\ UNCHANGED <<hash, now, calls, stable>>

\* The answer to a registration write.
RegWriteDone(x, ok) ==
    /\ x \in inflight /\ x.owner = "ctor" /\ x.cmd = "hset"
    /\ hash' = IF ok THEN setHashObject(hash, x.group, x.field, x.value) ELSE hash
    /\ inst' = [inst EXCEPT ![x.inst] =
                   RegistrationStep([@ EXCEPT !.writeFailed = @ \/ ~ok],
                                    RegistrationWriteError(IF ok THEN NoError ELSE BackendError))]
    /\ inflight' = inflight \ {x}
    /\ UNCHANGED <<now, calls, stable>>

Tick ==
    /\ now < MaxTime
    /\ now' = now + 1
    /\ UNCHANGED <<hash, inst, calls, inflight, stable>>

----------------------------------------------------------------------------
(* The public operations: what every one of them does before its adapter call *)

Range(seq) == {seq[n] : n \in DOMAIN seq}

\* The constructor has returned the instance to its caller.
Constructed(i) == inst[i].status \in {"registering", "ready", "raised"}

\* Mutant: the store filter is ignored.
Selected_Always(req) == TRUE

\* Mutant: the entries of the store filter are matched whatever their case.
Selected_AnyCase(req) ==
    req.store.t = "undefined" \/ "redis" \in Range(req.store.a) \/ "Redis" \in Range(req.store.a)

\* queueData.store === undefined || queueData.store.indexOf('redis') !== -1
Selected(req) == req.store.t = "undefined" \/ "redis" \in Range(req.store.a)

\* Mutant: the identifier of the request is trimmed before it is looked up.
IsRegistered_Trimmed(instance, identifier) == Trim(identifier) \in Range(instance.identifierSet)

\* value.identifierSet.indexOf(queueData.identifier) !== -1
IsRegistered(instance, identifier) == identifier \in Range(instance.identifierSet)

\* Mutant: the registration of the identifier is not checked.
Route_Unchecked(instance, req) == IF ~Selected(req) THEN "skip" ELSE "call"

\* The leg of the redis store: "skip" (filtered out), "unregistered" or "call".
Route(instance, req) ==
    IF ~Selected(req) THEN "skip"
    ELSE IF ~IsRegistered(instance, req.identifier.s) THEN "unregistered"
    ELSE "call"

\* Mutant: the leg of an unregistered identifier ends without an error.
LegError_Silent(instance, req) == NoError

\* The error of a leg that ends without an adapter call.
LegError(instance, req) ==
    IF Route(instance, req) = "unregistered" THEN NotRegistered(req.identifier.s) ELSE NoError

\* The result object handed to the callback.
EmptyResult == [redis |-> "undefined", val |-> Nil, items |-> <<>>, keys |-> {}, n |-> 0]
ValueResult(payload) == [EmptyResult EXCEPT !.redis = "value", !.val = payload]
KeysResult(keys) == [EmptyResult EXCEPT !.redis = "keys", !.keys = keys]
ListResult(items) == [EmptyResult EXCEPT !.redis = "list", !.items = items]
CountResult(n) == [EmptyResult EXCEPT !.redis = "count", !.n = n]

\* The data fields of the backend the requests can address.
DataGroups == {<<"a">>, <<"b">>}
DataKeys == {<<"k">>, <<"m">>}
DataSlots == DataGroups \X DataKeys

\* Ghost values of a data field: not known, or removed by a completed delete.
Unknown == [t |-> "unknown", of |-> NoValue, at |-> 0]
Deleted == [t |-> "deleted", of |-> NoValue, at |-> 0]

\* A caller with no operation.  Ghosts of an operation: faulted (an adapter
\* call of it failed), alone and expect (see Disturb and Expected), metaWrites
\* (the timestamp writes it issued), overlapped (another operation was in
\* progress at some moment of its own progress), batch (the override its key
\* listing set), callback (what it was invoked with), callbacks (how often
\* its callback was invoked) and handed (the number of items of the result
\* when the callback got it).
Idle ==
    [phase |-> "idle", op |-> "", inst |-> 0, req |-> NoRequest, err |-> NoError,
     result |-> EmptyResult, left |-> 0, faulted |-> FALSE, alone |-> FALSE,
     expect |-> [k \in DataKeys |-> Unknown], metaWrites |-> 0,
     overlapped |-> FALSE, batch |-> [set |-> FALSE, at |-> 0], callback |-> "function",
     callbacks |-> 0, handed |-> 0]

Slot(req) == <<req.identifier.s, req.key.s>>

ListOps == {"readKeysFromQueue", "readKeysAndValuesFromQueue"}
WriteOps == {"pushToQueue", "deleteKeyFromQueue"}

\* Ghost: what the fields the operation reads are known to hold when it starts
\* (its key, or every key of its group for a listing).
Expected(op, req) ==
    [k \in DataKeys |->
        IF /\ <<req.identifier.s, k>> \in DOMAIN stable
           /\ op \in ListOps \/ (op = "readFromQueue" /\ req.key.s = k)
        THEN stable[<<req.identifier.s, k>>] ELSE Unknown]

Started(op, i, req) ==
    [Idle EXCEPT !.phase = "running", !.op = op, !.inst = i, !.req = req,
                 !.expect = Expected(op, req)]

Deliver(call, err, result) ==
    [call EXCEPT !.phase = "delivered", !.err = err, !.result = result, !.alone = FALSE,
                 !.callbacks = @ + 1, !.handed = Len(result.items)]

Throw(call, err) == [call EXCEPT !.phase = "thrown", !.err = err]

\* An operation that ends before any adapter call: a throw for a missing
\* callback, or the callback with the error of the validation or of the leg.
EndsAtOnce(c, op, i, req, callback, invalid) ==
    /\ \/ CallbackMissing(callback)
       \/ invalid # NoError
       \/ Route(inst[i], req) # "call"
    /\ LET started == [Started(op, i, req) EXCEPT !.callback = callback] IN
       calls' = [calls EXCEPT ![c] =
          IF CallbackMissing(callback) THEN Throw(started, CallbackExpected)
          ELSE IF invalid # NoError THEN Deliver(started, invalid, EmptyResult)
          ELSE Deliver(started, LegError(inst[i], req), EmptyResult)]
    /\ UNCHANGED <<hash, now, inst, inflight, stable>>

\* An operation that reaches the adapter.
ReachesAdapter(i, req, callback, invalid) ==
    /\ ~CallbackMissing(callback)
    /\ invalid = NoError
    /\ Route(inst[i], req) = "call"

\* An operation in progress: not yet answered, or with adapter calls in flight.
Active(d) ==
    \/ calls[d].phase = "running"
    \/ \E x \in inflight : x.owner = "call" /\ x.call = d

\* Ghost: operation c starts, and cs is calls with c started.  It and the
\* operations in progress overlap.
Overlap(c, cs) ==
    [d \in CallIds |->
        IF d = c THEN [cs[d] EXCEPT !.overlapped = \E e \in CallIds \ {c} : Active(e)]
        ELSE IF Active(d) THEN [cs[d] EXCEPT !.overlapped = TRUE]
        ELSE cs[d]]

\* Ghost: a write or a delete starts on a data field.  Nothing is known of the
\* field until a write or delete that ran alone on it has completed, and the
\* operations in flight that read it are no longer undisturbed.
Disturb(c, started, slot) ==
    /\ stable' = [s \in DOMAIN stable |-> IF s = slot THEN Unknown ELSE stable[s]]
    /\ calls' = Overlap(c, [d \in CallIds |->
          IF d = c
          THEN [started EXCEPT !.alone =
                    \A e \in CallIds \ {c} :
                        ~(/\ calls[e].phase = "running"
                          /\ calls[e].op \in WriteOps
                          /\ Slot(calls[e].req) = slot)]
          ELSE IF calls[d].phase = "running" /\ calls[d].req.identifier.s = slot[1]
          THEN [calls[d] EXCEPT !.expect[slot[2]] = Unknown,
                                !.alone = @ /\ Slot(calls[d].req) # slot]
          ELSE calls[d]])

----------------------------------------------------------------------------
(* pushToQueue *)

PushInvalid(req) ==
    IF validateQueueFields(req, FALSE) # NoError THEN validateQueueFields(req, FALSE)
    ELSE IF req.value.t # "object" \/ (req.value.body = "" /\ req.value.targetType = "undefined")
        THEN ValueInvalid
    ELSE IF req.value.targetType # "array" THEN TargetTypeInvalid
    ELSE NoError

pushToQueue(c, i, req, callback) ==
    /\ calls[c].phase = "idle" /\ Constructed(i)
    /\ \/ EndsAtOnce(c, "pushToQueue", i, req, callback, PushInvalid(req))
       \/ /\ ReachesAdapter(i, req, callback, PushInvalid(req))
          /\ inflight' = inflight \cup
                {AdapterCall("call", i, c, "outer", 0, "hset", req.identifier.s, req.key.s,
                             Serialize(req.value), Nil)}
          /\ Disturb(c, Started("pushToQueue", i, req), Slot(req))
          /\ UNCHANGED <<hash, now, inst>>

\* Ghost: what a completed write or delete leaves known of its field.
Known(call, ok, payload) ==
    IF call.alone /\ ok
    THEN [s \in DOMAIN stable |-> IF s = Slot(call.req) THEN payload ELSE stable[s]]
    ELSE stable

PushDone(x, ok) ==
    /\ x \in inflight /\ x.owner = "call" /\ calls[x.call].op = "pushToQueue"
    /\ hash' = IF ok THEN setHashObject(hash, x.group, x.field, x.value) ELSE hash
    /\ calls' = [calls EXCEPT ![x.call] =
          Deliver([@ EXCEPT !.faulted = ~ok], IF ok THEN NoError ELSE BackendError, EmptyResult)]
    /\ stable' = Known(calls[x.call], ok, x.value)
    /\ inflight' = inflight \ {x}
    /\ UNCHANGED <<now, inst>>

----------------------------------------------------------------------------
(* deleteKeyFromQueue *)

deleteKeyFromQueue(c, i, req, callback) ==
    /\ calls[c].phase = "idle" /\ Constructed(i)
    /\ \/ EndsAtOnce(c, "deleteKeyFromQueue", i, req, callback, validateQueueFields(req, FALSE))
       \/ /\ ReachesAdapter(i, req, callback, validateQueueFields(req, FALSE))
          /\ inflight' = inflight \cup
                {AdapterCall("call", i, c, "outer", 0, "hdel", req.identifier.s, req.key.s,
                             Nil, Nil)}
          /\ Disturb(c, Started("deleteKeyFromQueue", i, req), Slot(req))
          /\ UNCHANGED <<hash, now, inst>>

\* The number of fields removed, which the adapter answers.
Removed(h, group, field) == IF <<group, field>> \in DOMAIN h THEN 1 ELSE 0

DeleteDone(x, ok) ==
    /\ x \in inflight /\ x.owner = "call" /\ calls[x.call].op = "deleteKeyFromQueue"
    /\ hash' = IF ok THEN deleteHashKey(hash, x.group, x.field) ELSE hash
    /\ calls' = [calls EXCEPT ![x.call] =
          Deliver([@ EXCEPT !.faulted = ~ok],
                  IF ok THEN NoError ELSE BackendError,
                  IF ok /\ Removed(hash, x.group, x.field) # 0
                      THEN CountResult(Removed(hash, x.group, x.field))
                      ELSE EmptyResult)]
    /\ stable' = Known(calls[x.call], ok, Deleted)
    /\ inflight' = inflight \ {x}
    /\ UNCHANGED <<now, inst>>

----------------------------------------------------------------------------
(* readFromQueue, called by a caller or, per key, by readKeysAndValuesFromQueue *)

readFromQueue(c, i, req, callback) ==
    /\ calls[c].phase = "idle" /\ Constructed(i)
    /\ \/ EndsAtOnce(c, "readFromQueue", i, req, callback, validateQueueFields(req, FALSE))
       \/ /\ ReachesAdapter(i, req, callback, validateQueueFields(req, FALSE))
          /\ inflight' = inflight \cup
                {AdapterCall("call", i, c, "outer", 0, "hget", req.identifier.s, req.key.s,
                             Nil, Nil)}
          /\ calls' = Overlap(c, [calls EXCEPT ![c] = Started("readFromQueue", i, req)])
          /\ UNCHANGED <<hash, now, inst, stable>>

\* Mutant: the override is not looked at.
ReadDate_Now(instance, time) == time

\* this.redisReadDate || moment(new Date()).format("YYYY-MM-DDTHH:mm:ss")
ReadDate(instance, time) ==
    IF instance.redisReadDate.set THEN instance.redisReadDate.at ELSE time

\* Mutants: the response is never put in the result; it is put there unchecked.
ReadResult_Dropped(response) == EmptyResult
ReadResult_Unchecked(response) == ValueResult(response)

\* if(response && response.length) result.redis = response
ReadResult(response) ==
    IF Truthy(response) /\ Length(response) # 0 THEN ValueResult(response) ELSE EmptyResult

\* Mutant: the length of the result object is tested, not that of its entry.
KeepsItem_OfResult(result) == FALSE

\* if(response && response.redis && response.redis.length): the key's item is kept.
KeepsItem(result) == result.redis = "value" /\ Truthy(result.val) /\ Length(result.val) # 0

\* Mutant: the timestamp write is left out.
StampsRead_Never(response) == FALSE

\* The second waterfall step runs the timestamp write for this response.
StampsRead(response) == Truthy(response)

\* Mutant: the error of the timestamp write is handed on.
ReadStampError_Passed(err) == err

\* The error the second waterfall step hands on when the timestamp write fails.
ReadStampError(err) == NoError

\* The item readKeysAndValuesFromQueue keeps of one key's read:
\* dataObj with its key, store and value set.
Item(req, name, payload) ==
    [identifier |-> req.identifier.s, key |-> name, store |-> <<"redis">>, value |-> payload]

\* this.redisReadDate = null, then the callback of readKeysAndValuesFromQueue.
Finish(call, err) ==
    [call EXCEPT !.phase = "delivered", !.err = err,
                 !.callbacks = @ + 1, !.handed = Len(call.result.items)]

\* Mutant: every failing read finishes the operation, not only the first.
InnerDone_EveryError(call, err, entries) ==
    LET kept == [call EXCEPT !.result.items = @ \o entries] IN
    IF err # NoError
    THEN Finish(kept, err)
    ELSE IF call.left = 1 /\ call.phase = "running"
         THEN Finish([kept EXCEPT !.left = 0], NoError)
         ELSE [kept EXCEPT !.left = call.left - 1]

\* The callback of one key's read inside readKeysAndValuesFromQueue, then
\* async.each: the first error, or the last read, finishes the operation.
InnerDone(call, err, entries) ==
    LET kept == [call EXCEPT !.result.items = @ \o entries] IN
    IF err # NoError
    THEN IF call.phase = "running" THEN Finish(kept, err) ELSE kept
    ELSE IF call.left = 1 /\ call.phase = "running"
         THEN Finish([kept EXCEPT !.left = 0], NoError)
         ELSE [kept EXCEPT !.left = call.left - 1]

\* Mutant: the override slot is left as it is.
Cleared_Never(i, before, after) == inst

\* Mutant: the identifiers of the instance are cleared with the override slot.
Cleared_WithIdentifiers(i, before, after) ==
    IF before.phase = "running" /\ after.phase = "delivered"
    THEN [inst EXCEPT ![i].redisReadDate = NoDate, ![i].identifierSet = <<>>]
    ELSE inst

\* The override slot after a step of call c: cleared when the step finished it.
Cleared(i, before, after) ==
    IF before.phase = "running" /\ after.phase = "delivered"
    THEN [inst EXCEPT ![i].redisReadDate = NoDate]
    ELSE inst

\* The answer to the data read of a key.
ReadGetDone(x, ok) ==
    /\ x \in inflight /\ x.owner = "call" /\ x.cmd = "hget"
    /\ LET call == calls[x.call]
           response == getHashObject(hash, x.group, x.field)
           result == ReadResult(response)
           failed == [call EXCEPT !.faulted = TRUE]
       IN
       IF ok /\ StampsRead(response)
       THEN /\ inflight' = (inflight \ {x}) \cup
                   {[x EXCEPT !.cmd = "hset",
                              !.group = servicesInfo,
                              !.field = MetaField(inst[x.inst].serviceName, call.req.identifier.s),
                              !.value = FormatDate(ReadDate(inst[x.inst], now)),
                              !.carry = result.val,
                              !.at = now,
                              !.over = inst[x.inst].redisReadDate]}
            /\ calls' = [calls EXCEPT ![x.call] =
                   IF x.sub = "outer"
                   THEN [call EXCEPT !.result = result, !.metaWrites = @ + 1]
                   ELSE [call EXCEPT !.metaWrites = @ + 1]]
            /\ UNCHANGED inst
       ELSE /\ inflight' = inflight \ {x}
            /\ calls' = [calls EXCEPT ![x.call] =
                   IF x.sub = "outer"
                   THEN IF ok THEN Deliver(call, NoError, result)
                        ELSE Deliver(failed, BackendError, EmptyResult)
                   ELSE IF ok THEN InnerDone(call, NoError, <<>>)
                        ELSE InnerDone(failed, BackendError, <<>>)]
            /\ inst' = IF x.sub = "inner" THEN Cleared(x.inst, call, calls'[x.call]) ELSE inst
    /\ UNCHANGED <<hash, now, stable>>

\* The answer to the timestamp write that follows a data read.
ReadStampDone(x, ok) ==
    /\ x \in inflight /\ x.owner = "call" /\ x.cmd = "hset"
    /\ calls[x.call].op \in {"readFromQueue", "readKeysAndValuesFromQueue"}
    /\ LET call == [calls[x.call] EXCEPT !.faulted = @ \/ ~ok]
           err == ReadStampError(IF ok THEN NoError ELSE BackendError)
       IN
       /\ hash' = IF ok THEN setHashObject(hash, x.group, x.field, x.value) ELSE hash
       /\ calls' = [calls EXCEPT ![x.call] =
              IF x.sub = "outer"
              THEN Deliver(call, err, call.result)
              ELSE InnerDone(call, err,
                      IF KeepsItem(ReadResult(x.carry))
                      THEN <<Item(call.req, x.key, x.carry)>> ELSE <<>>)]
       /\ inst' = IF x.sub = "inner" THEN Cleared(x.inst, calls[x.call], calls'[x.call]) ELSE inst
    /\ inflight' = inflight \ {x}
    /\ UNCHANGED <<now, stable>>

----------------------------------------------------------------------------
(* readKeysFromQueue *)

readKeysFromQueue(c, i, req, callback) ==
    /\ calls[c].phase = "idle" /\ Constructed(i)
    /\ \/ EndsAtOnce(c, "readKeysFromQueue", i, req, callback, validateQueueFields(req, TRUE))
       \/ /\ ReachesAdapter(i, req, callback, validateQueueFields(req, TRUE))
          /\ inflight' = inflight \cup
                {AdapterCall("call", i, c, "outer", 0, "hkeys", req.identifier.s, <<>>, Nil, Nil)}
          /\ calls' = Overlap(c, [calls EXCEPT ![c] = Started("readKeysFromQueue", i, req)])
          /\ UNCHANGED <<hash, now, inst, stable>>

KeysDone(x, ok) ==
    /\ x \in inflight /\ x.owner = "call" /\ calls[x.call].op = "readKeysFromQueue"
    /\ LET response == getHashKey(hash, x.group) IN
       calls' = [calls EXCEPT ![x.call] =
          IF ~ok THEN Deliver([@ EXCEPT !.faulted = TRUE], BackendError, EmptyResult)
          ELSE IF response # {} THEN Deliver(@, NoError, KeysResult(response))
          ELSE Deliver(@, NoError, EmptyResult)]
    /\ inflight' = inflight \ {x}
    /\ UNCHANGED <<hash, now, inst, stable>>

----------------------------------------------------------------------------
(* readKeysAndValuesFromQueue *)

readKeysAndValuesFromQueue(c, i, req, callback) ==
    /\ calls[c].phase = "idle" /\ Constructed(i)
    /\ \/ EndsAtOnce(c, "readKeysAndValuesFromQueue", i, req, callback,
                     validateQueueFields(req, TRUE))
       \/ /\ ReachesAdapter(i, req, callback, validateQueueFields(req, TRUE))
          /\ inflight' = inflight \cup
                {AdapterCall("call", i, c, "outer", 0, "hkeys", req.identifier.s, <<>>, Nil, Nil)}
          /\ calls' = Overlap(c, [calls EXCEPT ![c] = Started("readKeysAndValuesFromQueue", i, req)])
          /\ UNCHANGED <<hash, now, inst, stable>>

\* dataObj: a copy of the request with the key and the store set.
InnerRequest(req, name) == [req EXCEPT !.key = Str(name), !.store = StoreList(<<"redis">>)]

\* The keys whose read reaches the adapter, and the error of those that do not.
InnerReads(instance, req, keyList) ==
    {name \in keyList :
        /\ validateQueueFields(InnerRequest(req, name), FALSE) = NoError
        /\ Route(instance, InnerRequest(req, name)) = "call"}

InnerError(instance, req, name) ==
    IF validateQueueFields(InnerRequest(req, name), FALSE) # NoError
    THEN validateQueueFields(InnerRequest(req, name), FALSE)
    ELSE IF Route(instance, InnerRequest(req, name)) = "unregistered"
    THEN NotRegistered(req.identifier.s)
    ELSE NoError

\* The answer to the key listing: the override is set, then every key is read.
ListDone(x, ok) ==
    /\ x \in inflight /\ x.owner = "call" /\ calls[x.call].op = "readKeysAndValuesFromQueue"
    /\ x.cmd = "hkeys"
    /\ LET call == calls[x.call]
           keyList == getHashKey(hash, x.group)
           reads == InnerReads(inst[x.inst], call.req, keyList)
           refused == {InnerError(inst[x.inst], call.req, name) : name \in keyList \ reads}
                          \ {NoError}
           listed == [call EXCEPT !.result = ListResult(<<>>), !.left = Cardinality(keyList),
                                  !.batch = [set |-> TRUE, at |-> now]]
       IN
       IF ~ok \/ keyList = {}
       THEN /\ calls' = [calls EXCEPT ![x.call] =
                   IF ok THEN Deliver(call, NoError, EmptyResult)
                   ELSE Deliver([call EXCEPT !.faulted = TRUE], BackendError, EmptyResult)]
            /\ inst' = [inst EXCEPT ![x.inst].redisReadDate = NoDate]
            /\ inflight' = inflight \ {x}
       ELSE /\ calls' = [calls EXCEPT ![x.call] =
                   IF refused # {} THEN Finish(listed, CHOOSE e \in refused : TRUE)
                   ELSE listed]
            /\ inst' = [inst EXCEPT ![x.inst].redisReadDate =
                   IF refused # {} THEN NoDate ELSE SomeDate(now)]
            /\ inflight' = (inflight \ {x}) \cup
                   {AdapterCall("call", x.inst, x.call, "inner", 0, "hget", x.group, name,
                                Nil, Nil) : name \in reads}
    /\ UNCHANGED <<hash, now, stable>>

----------------------------------------------------------------------------
(* The caller *)

\* The caller has its answer and every step of the operation has ended.
Retire(c) ==
    /\ calls[c].phase \in {"delivered", "thrown"}
    /\ \A x \in inflight : ~(x.owner = "call" /\ x.call = c)
    /\ calls' = [calls EXCEPT ![c] = Idle]
    /\ UNCHANGED <<hash, now, inst, inflight, stable>>

----------------------------------------------------------------------------
(* The inputs *)

ServiceName == <<"s">>

\* The entries a configured identifierSet is made of.
ConfigIdentifiers == {<<"a">>, <<" ", "a", " ">>, <<"b">>, <<" ">>}

RECURSIVE SeqsUpTo(_, _)
SeqsUpTo(S, n) ==
    IF n = 0 THEN {<<>>}
    ELSE SeqsUpTo(S, n - 1) \cup
         {Append(q, e) : q \in {r \in SeqsUpTo(S, n - 1) : Len(r) = n - 1}, e \in S}

ConnectionConfigs ==
    {Config("undefined", <<>>, <<>>), Config("empty", <<>>, <<>>), Config("nostore", <<>>, <<>>)}
    \cup {Config("redis", ServiceName, ids) : ids \in SeqsUpTo(ConfigIdentifiers, MaxIdentifiers)}

Values == {Obj("v1", "array"), Obj("v2", "array")}
Stores == {NoStore, StoreList(<<"redis">>), StoreList(<<"Redis">>), StoreList(<<"mongo">>)}

\* The writes and deletes of the callers that run beside the first one.
WriterPushes ==
    {Request(Str(<<"a">>), Str(<<"k">>), v, NoStore) : v \in Values}
    \cup {Request(Str(<<"a">>), Str(<<"m">>), Obj("v1", "array"), NoStore)}
WriterDeletes == {Request(Str(<<"a">>), Str(k), NoValue, NoStore) : k \in DataKeys}

\* The requests of the first caller: those of the registered group, and one
\* request each with a store filter, with an unregistered identifier, or
\* malformed; one call comes without a callback.
KeyRequests ==
    WriterDeletes
    \cup {Request(Str(<<"a">>), Str(<<"k">>), NoValue, st) : st \in Stores}
    \cup {Request(Str(<<"b">>), Str(<<"k">>), NoValue, NoStore),
          Request(Str(<<"a">>), Undefined, NoValue, NoStore),
          Request(Str(<<" ">>), Str(<<"k">>), NoValue, NoStore),
          Request(Str(<<"a">>), Str(<<"k">>), NoValue, StoreList(<<>>)),
          Request(Str(<<" ", "a">>), Str(<<"k">>), NoValue, NoStore)}
PushRequests ==
    WriterPushes
    \cup {Request(Str(<<"a">>), Str(<<"k">>), Obj("v1", "array"), st) : st \in Stores}
    \cup {Request(Str(<<"b">>), Str(<<"k">>), Obj("v1", "array"), NoStore),
          Request(Str(<<"a">>), Str(<<"k">>), Obj("v1", "empty"), NoStore),
          Request(Str(<<"a">>), Str(<<"k">>), Obj("v1", "array"), StoreList(<<>>)),
          Request(Str(<<" ", "a">>), Str(<<"k">>), Obj("v1", "array"), NoStore)}
ListRequests ==
    {Request(Str(<<"a">>), Undefined, NoValue, st) : st \in Stores}
    \cup {Request(Str(<<"b">>), Undefined, NoValue, NoStore), NoRequest,
          Request(Str(<<"a">>), Undefined, NoValue, StoreList(<<>>)),
          Request(Str(<<" ", "a">>), Undefined, NoValue, NoStore)}

WithCallback(requests) ==
    {<<req, "function">> : req \in requests} \cup {<<NoRequest, "undefined">>}

\* A valid write and a valid delete of a registered identifier, invoked
\* without a callback.
UncalledPushes == {<<Request(Str(<<"a">>), Str(<<"k">>), Obj("v1", "array"), NoStore), "undefined">>}
UncalledDeletes == {<<Request(Str(<<"a">>), Str(<<"k">>), NoValue, NoStore), "undefined">>}

----------------------------------------------------------------------------
(* The operations of one constructed instance *)

\* The instance the constructor leaves once its registration has completed
\* on an empty backend.
Ready(config, time) ==
    [NoInstance EXCEPT !.status = "ready",
                       !.serviceName = config.serviceName,
                       !.identifierSet = RegisteredIdentifiers(config.identifierSet),
                       !.date = time,
                       !.config = config.identifierSet,
                       !.quiet = TRUE]

Registrations(config, time) ==
    [slot \in {<<servicesInfo, MetaField(config.serviceName, id)>> :
                    id \in Range(RegisteredIdentifiers(config.identifierSet))} |->
        FormatDate(time)]

InitConfig == Config("redis", ServiceName, << <<" ", "a">> >>)

Init ==
    /\ hash = Registrations(InitConfig, 0)
    /\ now = 0
    /\ inst = [i \in Instances |-> IF i = 1 THEN Ready(InitConfig, 0) ELSE NoInstance]
    /\ calls = [c \in CallIds |-> Idle]
    /\ inflight = {}
    /\ stable = [s \in DataSlots |-> Nil]

Answer ==
    \E x \in inflight, ok \in BOOLEAN :
        \/ PushDone(x, ok)
        \/ DeleteDone(x, ok)
        \/ ReadGetDone(x, ok)
        \/ ReadStampDone(x, ok)
        \/ KeysDone(x, ok)
        \/ ListDone(x, ok)

Next ==
    \/ \E i \in Instances :
          \/ \E in \in WithCallback(PushRequests) \cup UncalledPushes :
                pushToQueue(1, i, in[1], in[2])
          \/ \E in \in WithCallback(KeyRequests) : readFromQueue(1, i, in[1], in[2])
          \/ \E in \in WithCallback(KeyRequests) \cup UncalledDeletes :
                deleteKeyFromQueue(1, i, in[1], in[2])
          \/ \E in \in WithCallback(ListRequests) : readKeysFromQueue(1, i, in[1], in[2])
          \/ \E in \in WithCallback(ListRequests) :
                readKeysAndValuesFromQueue(1, i, in[1], in[2])
    \/ \E c \in CallIds \ {1}, i \in Instances :
          \/ \E req \in WriterPushes : pushToQueue(c, i, req, "function")
          \/ \E req \in WriterDeletes : deleteKeyFromQueue(c, i, req, "function")
    \/ Answer
    \/ \E c \in CallIds : Retire(c)

Spec == Init /\ [][Next]_vars

\* The answers to the adapter calls of caller c.
AnswerTo(c) ==
    \E x \in inflight, ok \in BOOLEAN :
        /\ x.owner = "call" /\ x.call = c
        /\ \/ PushDone(x, ok)
           \/ DeleteDone(x, ok)
           \/ ReadGetDone(x, ok)
           \/ ReadStampDone(x, ok)
           \/ KeysDone(x, ok)
           \/ ListDone(x, ok)

\* The operations when the adapter answers every call it was given.
SpecAnswered == Spec /\ \A c \in CallIds : WF_vars(AnswerTo(c))

----------------------------------------------------------------------------
(* Construction: several instances over one backend *)

InitCtor ==
    /\ hash = << >>
    /\ now = 0
    /\ inst = [i \in Instances |-> NoInstance]
    /\ calls = [c \in CallIds |-> Idle]
    /\ inflight = {}
    /\ stable = [s \in DataSlots |-> Nil]

NextCtor ==
    \/ \E i \in Instances, config \in ConnectionConfigs : Construct(i, config)
    \/ \E x \in inflight, ok \in BOOLEAN : RegLookupDone(x, ok) \/ RegWriteDone(x, ok)
    \/ Tick

SpecCtor == InitCtor /\ [][NextCtor]_vars

----------------------------------------------------------------------------
(* Reads beside each other on one instance, with the clock running *)

\* The backend once the instance is constructed and pushToQueue has completed
\* for every key of DataKeys under the identifier a.
Filled == [slot \in {<<<<"a">>, k>> : k \in DataKeys} |-> Serialize(Obj("v1", "array"))]

\* The readers' requests: a key that is set, a key that is not, and the listing.
ReaderReads == {Request(Str(<<"a">>), Str(k), NoValue, NoStore) : k \in {<<"k">>, <<"z">>}}
ReaderLists == {Request(Str(<<"a">>), Undefined, NoValue, NoStore)}

InitRead ==
    /\ hash = Registrations(InitConfig, 0) @@ Filled
    /\ now = 0
    /\ inst = [i \in Instances |-> IF i = 1 THEN Ready(InitConfig, 0) ELSE NoInstance]
    /\ calls = [c \in CallIds |-> Idle]
    /\ inflight = {}
    /\ stable = [s \in DataSlots |-> IF s \in DOMAIN Filled THEN Filled[s] ELSE Nil]

AnswerRead ==
    \E x \in inflight, ok \in BOOLEAN :
        \/ ReadGetDone(x, ok)
        \/ ReadStampDone(x, ok)
        \/ ListDone(x, ok)

NextRead ==
    \/ \E c \in CallIds, i \in Instances, req \in ReaderReads :
          readFromQueue(c, i, req, "function")
    \/ \E c \in CallIds, i \in Instances, req \in ReaderLists :
          readKeysAndValuesFromQueue(c, i, req, "function")
    \/ AnswerRead
    \/ \E c \in CallIds : Retire(c)
    \/ Tick

SpecRead == InitRead /\ [][NextRead]_vars

----------------------------------------------------------------------------
(* The life of one instance: its construction, and operations from the moment
   the constructor has returned *)

\* A configuration whose identifierSet also names the group the meta-records
\* are kept in: the constructor takes any non-blank string as an identifier.
LifeConfig == Config("redis", ServiceName, << <<" ", "a">>, servicesInfo >>)

\* The requests of the caller: a data field of the identifier a, and the field
\* of the identifier registeredServices that has the name of a's meta-record.
LifeFields == {<<<<"a">>, <<"k">>>>, <<servicesInfo, MetaField(ServiceName, <<"a">>)>>}
LifePushes == {Request(Str(f[1]), Str(f[2]), Obj("v1", "array"), NoStore) : f \in LifeFields}
LifeKeys == {Request(Str(f[1]), Str(f[2]), NoValue, NoStore) : f \in LifeFields}
LifeLists == {Request(Str(<<"a">>), Undefined, NoValue, NoStore)}

NextLife ==
    \/ Construct(1, LifeConfig)
    \/ \E x \in inflight, ok \in BOOLEAN : RegLookupDone(x, ok) \/ RegWriteDone(x, ok)
    \/ \E req \in LifePushes : pushToQueue(1, 1, req, "function")
    \/ \E req \in LifeKeys : deleteKeyFromQueue(1, 1, req, "function")
    \/ \E req \in LifeKeys : readFromQueue(1, 1, req, "function")
    \/ \E req \in LifeLists : readKeysFromQueue(1, 1, req, "function")
    \/ \E req \in LifeLists : readKeysAndValuesFromQueue(1, 1, req, "function")
    \/ Answer
    \/ Retire(1)

SpecLife == InitCtor /\ [][NextLife]_vars

----------------------------------------------------------------------------
(* The earlier QueueHandler of src/unnamed/part_000: its
   readKeysAndValuesFromQueue and the readFromQueue it calls per key, beside
   the readKeysAndValuesFromQueue of src/index.js on the same backend *)

OldList == "part_000.readKeysAndValuesFromQueue"

\* callback(message) where callback is no function.
Old_NotAFunction == Err("callback is not a function", <<>>)

\* The checks at the head of readKeysAndValuesFromQueue, before that of the callback.
Old_ListInvalid(req) ==
    IF req.t # "object" \/ HasNoKeys(req) THEN QueueDataInvalid
    ELSE IF NotAString(req.identifier) THEN IdentifierInvalid
    ELSE IF req.store.t # "undefined" /\ (req.store.t # "array" \/ req.store.a = <<>>)
        THEN StoreInvalid
    ELSE NoError

\* The checks at the head of readFromQueue, before that of the callback.
Old_ReadInvalid(req) ==
    IF req.t # "object" \/ HasNoKeys(req) THEN QueueDataInvalid
    ELSE IF NotAString(req.identifier) THEN IdentifierInvalid
    ELSE IF NotAString(req.key) THEN KeyInvalid
    ELSE IF req.store.t # "undefined" /\ (req.store.t # "array" \/ req.store.a = <<>>)
        THEN StoreInvalid
    ELSE NoError

\* queueData.store = (queueData.store === undefined ? new Array() : queueData.store)
Old_Store(req) == IF req.store.t = "undefined" THEN StoreList(<<>>) ELSE req.store

\* queueData.store.length === 0 || queueData.store.indexOf('redis') !== -1
Old_Selected(req) == Len(Old_Store(req).a) = 0 \/ "redis" \in Range(Old_Store(req).a)

Old_Route(instance, req) ==
    IF ~Old_Selected(req) THEN "skip"
    ELSE IF ~IsRegistered(instance, req.identifier.s) THEN "unregistered"
    ELSE "call"

Old_readKeysAndValuesFromQueue(c, i, req, callback) ==
    /\ calls[c].phase = "idle" /\ Constructed(i)
    /\ LET started == [Started(OldList, i, req) EXCEPT !.callback = callback]
           invalid == Old_ListInvalid(req)
       IN
       IF invalid # NoError \/ CallbackMissing(callback) \/ Old_Route(inst[i], req) # "call"
       THEN /\ calls' = [calls EXCEPT ![c] =
                   IF invalid # NoError
                   THEN IF CallbackMissing(callback) THEN Throw(started, Old_NotAFunction)
                        ELSE Deliver(started, invalid, EmptyResult)
                   ELSE IF CallbackMissing(callback) THEN Throw(started, CallbackExpected)
                   ELSE IF Old_Route(inst[i], req) = "unregistered"
                        THEN Deliver(started, NotRegistered(req.identifier.s), EmptyResult)
                   ELSE Deliver(started, NoError, EmptyResult)]
            /\ UNCHANGED <<hash, now, inst, inflight, stable>>
       ELSE /\ inflight' = inflight \cup
                   {AdapterCall("call", i, c, "outer", 0, "hkeys", req.identifier.s, <<>>, Nil, Nil)}
            /\ calls' = Overlap(c, [calls EXCEPT ![c] = started])
            /\ UNCHANGED <<hash, now, inst, stable>>

\* dataObj: a copy of the request, whose store was replaced above, with the key set.
Old_InnerRequest(req, name) == [req EXCEPT !.key = Str(name), !.store = Old_Store(req)]

\* The keys whose read reaches the adapter, and the error of those that do not.
Old_InnerReads(instance, req, keyList) ==
    {name \in keyList :
        /\ Old_ReadInvalid(Old_InnerRequest(req, name)) = NoError
        /\ Old_Route(instance, Old_InnerRequest(req, name)) = "call"}

Old_InnerError(instance, req, name) ==
    IF Old_ReadInvalid(Old_InnerRequest(req, name)) # NoError
    THEN Old_ReadInvalid(Old_InnerRequest(req, name))
    ELSE IF Old_Route(instance, Old_InnerRequest(req, name)) = "unregistered"
    THEN NotRegistered(req.identifier.s)
    ELSE NoError

\* The answer to the key listing: the override is set, then every key is read.
Old_ListDone(x, ok) ==
    /\ x \in inflight /\ x.owner = "call" /\ calls[x.call].op = OldList
    /\ x.cmd = "hkeys"
    /\ LET call == calls[x.call]
           keyList == getHashKey(hash, x.group)
           reads == Old_InnerReads(inst[x.inst], call.req, keyList)
           refused == {Old_InnerError(inst[x.inst], call.req, name) : name \in keyList \ reads}
                          \ {NoError}
           listed == [call EXCEPT !.result = ListResult(<<>>), !.left = Cardinality(keyList),
                                  !.batch = [set |-> TRUE, at |-> now]]
       IN
       IF ~ok \/ keyList = {}
       THEN /\ calls' = [calls EXCEPT ![x.call] =
                   IF ok THEN Deliver(call, NoError, EmptyResult)
                   ELSE Deliver([call EXCEPT !.faulted = TRUE], BackendError, EmptyResult)]
            /\ inst' = [inst EXCEPT ![x.inst].redisReadDate = NoDate]
            /\ inflight' = inflight \ {x}
       ELSE /\ calls' = [calls EXCEPT ![x.call] =
                   IF refused # {} THEN Finish(listed, CHOOSE e \in refused : TRUE)
                   ELSE listed]
            /\ inst' = [inst EXCEPT ![x.inst].redisReadDate =
                   IF refused # {} THEN NoDate ELSE SomeDate(now)]
            /\ inflight' = (inflight \ {x}) \cup
                   {AdapterCall("call", x.inst, x.call, "inner", 0, "hget", x.group, name,
                                Nil, Nil) : name \in reads}
    /\ UNCHANGED <<hash, now, stable>>

\* if(response && response.length), response being the result object of
\* readFromQueue, {} or {redis: value}: an object has no length.
Old_KeepsItem(result) == FALSE

\* The answer to the data read of a key.
Old_ReadGetDone(x, ok) ==
    /\ x \in inflight /\ x.owner = "call" /\ calls[x.call].op = OldList
    /\ x.cmd = "hget"
    /\ LET call == calls[x.call]
           response == getHashObject(hash, x.group, x.field)
       IN
       IF ok /\ Truthy(response)
       THEN /\ inflight' = (inflight \ {x}) \cup
                   {[x EXCEPT !.cmd = "hset",
                              !.group = servicesInfo,
                              !.field = MetaField(inst[x.inst].serviceName, call.req.identifier.s),
                              !.value = FormatDate(ReadDate(inst[x.inst], now)),
                              !.carry = ReadResult(response).val,
                              !.at = now,
                              !.over = inst[x.inst].redisReadDate]}
            /\ calls' = [calls EXCEPT ![x.call] = [call EXCEPT !.metaWrites = @ + 1]]
            /\ UNCHANGED inst
       ELSE /\ inflight' = inflight \ {x}
            /\ calls' = [calls EXCEPT ![x.call] =
                   IF ok THEN InnerDone(call, NoError, <<>>)
                   ELSE InnerDone([call EXCEPT !.faulted = TRUE], BackendError, <<>>)]
            /\ inst' = Cleared(x.inst, call, calls'[x.call])
    /\ UNCHANGED <<hash, now, stable>>

\* The answer to the timestamp write that follows a data read: its error is
\* dropped, and the callback of the key's read looks at the result.
Old_ReadStampDone(x, ok) ==
    /\ x \in inflight /\ x.owner = "call" /\ calls[x.call].op = OldList
    /\ x.cmd = "hset"
    /\ LET call == [calls[x.call] EXCEPT !.faulted = @ \/ ~ok] IN
       /\ hash' = IF ok THEN setHashObject(hash, x.group, x.field, x.value) ELSE hash
       /\ calls' = [calls EXCEPT ![x.call] =
              InnerDone(call, NoError,
                 IF Old_KeepsItem(ReadResult(x.carry))
                 THEN <<[Item(call.req, x.key, x.carry) EXCEPT !.store = Old_Store(call.req).a]>>
                 ELSE <<>>)]
       /\ inst' = Cleared(x.inst, calls[x.call], calls'[x.call])
    /\ inflight' = inflight \ {x}
    /\ UNCHANGED <<now, stable>>

\* The requests given to both: with no store filter, with one that names the
\* redis store or does not, of an unregistered identifier, and a missing one.
BothRequests ==
    {Request(Str(<<"a">>), Undefined, NoValue, st) :
        st \in {NoStore, StoreList(<<"redis">>), StoreList(<<"Redis">>)}}
    \cup {Request(Str(<<"b">>), Undefined, NoValue, NoStore), NoRequest}

\* Caller 1 and instance 1 are of src/index.js, caller 2 and instance 2 of
\* part_000, whose constructor is the same; the group a is empty or filled.
InitBoth ==
    /\ hash \in {Registrations(InitConfig, 0), Registrations(InitConfig, 0) @@ Filled}
    /\ now = 0
    /\ inst = [i \in Instances |-> IF i <= 2 THEN Ready(InitConfig, 0) ELSE NoInstance]
    /\ calls = [c \in CallIds |-> Idle]
    /\ inflight = {}
    /\ stable = [s \in DataSlots |-> IF s \in DOMAIN hash THEN hash[s] ELSE Nil]

NextBoth ==
    \/ \E req \in BothRequests : readKeysAndValuesFromQueue(1, 1, req, "function")
    \/ \E req \in BothRequests : Old_readKeysAndValuesFromQueue(2, 2, req, "function")
    \/ \E x \in inflight, ok \in BOOLEAN :
          /\ calls[x.call].op = "readKeysAndValuesFromQueue"
          /\ ListDone(x, ok) \/ ReadGetDone(x, ok) \/ ReadStampDone(x, ok)
    \/ \E x \in inflight, ok \in BOOLEAN :
          Old_ListDone(x, ok) \/ Old_ReadGetDone(x, ok) \/ Old_ReadStampDone(x, ok)
    \/ \E c \in CallIds : Retire(c)

SpecBoth == InitBoth /\ [][NextBoth]_vars

----------------------------------------------------------------------------
(* Properties *)

\* The validation every operation runs on its request.
Invalid(op, req) ==
    IF op = "pushToQueue" THEN PushInvalid(req) ELSE validateQueueFields(req, op \in ListOps)

\* The operation was invoked with a callback and a valid request.
Accepted(call) == call.phase \in {"running", "delivered"} /\ Invalid(call.op, call.req) = NoError

\* The operation is answered, its request was for the redis store and a
\* registered identifier, and none of its adapter calls failed.
Served(call) ==
    /\ call.phase = "delivered"
    /\ Invalid(call.op, call.req) = NoError
    /\ Route(inst[call.inst], call.req) = "call"
    /\ ~call.faulted

\* The store filter of the request is present and does not name the redis store.
FilteredOut(req) == req.store.t = "array" /\ \A n \in DOMAIN req.store.a : req.store.a[n] # "redis"

\* What the key of a read was known to hold when the read started, if nothing
\* wrote or deleted it while the read ran.
ExpectOf(call) ==
    IF call.req.key.s \in DataKeys THEN call.expect[call.req.key.s] ELSE Unknown

\* C1: a readFromQueue that starts after a pushToQueue of the same identifier
\* and key has completed without error, with no insert or delete of that key
\* in between or beside it, delivers no error and the inserted value as the
\* entry of the redis store.
C1_ReadReturnsInserted ==
    \A c \in CallIds :
        (/\ calls[c].op = "readFromQueue"
         /\ Served(calls[c])
         /\ ExpectOf(calls[c]).t = "json")
        => /\ calls[c].err = NoError
           /\ calls[c].result = ValueResult(ExpectOf(calls[c]))

C1_Witness ==
    \E c \in CallIds :
        /\ calls[c].op = "readFromQueue"
        /\ Served(calls[c])
        /\ ExpectOf(calls[c]) = Serialize(Obj("v2", "array"))
        /\ calls[c].result = ValueResult(Serialize(Obj("v2", "array")))

\* C2: a readFromQueue of a key that holds no value (never inserted, or removed
\* by a completed deleteKeyFromQueue) delivers no error and a result without
\* an entry for the redis store.
C2_AbsentIsNoError ==
    \A c \in CallIds :
        (/\ calls[c].op = "readFromQueue"
         /\ Served(calls[c])
         /\ ExpectOf(calls[c]) \in {Nil, Deleted})
        => /\ calls[c].err = NoError
           /\ calls[c].result = EmptyResult

C2_Witness ==
    \E c \in CallIds :
        /\ calls[c].op = "readFromQueue"
        /\ Served(calls[c])
        /\ ExpectOf(calls[c]) = Deleted
        /\ calls[c].result.redis = "undefined"

\* C3: every adapter call on a data group that an operation has issued, the
\* per-key reads of readKeysAndValuesFromQueue included, is on an identifier of
\* the identifierSet of the instance.
C3_OnlyRegisteredGroups ==
    \A x \in inflight :
        (x.owner = "call" /\ x.group # servicesInfo)
        => IsRegistered(inst[x.inst], x.group)

C3_Witness ==
    \E x \in inflight :
        /\ x.owner = "call" /\ x.sub = "inner" /\ x.cmd = "hget"
        /\ IsRegistered(inst[x.inst], x.group)

\* C4: an operation whose identifier is not in the identifierSet of the
\* selected redis store is answered with the 'not registered' error, and no
\* adapter call is made for it.
C4_UnregisteredIsRefused ==
    \A c \in CallIds :
        (/\ Accepted(calls[c])
         /\ ~FilteredOut(calls[c].req)
         /\ ~IsRegistered(inst[calls[c].inst], calls[c].req.identifier.s))
        => /\ calls[c].phase = "delivered"
           /\ calls[c].err = NotRegistered(calls[c].req.identifier.s)
           /\ calls[c].result = EmptyResult
           /\ calls[c].metaWrites = 0
           /\ \A x \in inflight : ~(x.owner = "call" /\ x.call = c)

C4_Witness ==
    \E c \in CallIds :
        /\ calls[c].op = "readKeysAndValuesFromQueue"
        /\ Accepted(calls[c])
        /\ calls[c].req.identifier.s = <<"b">>
        /\ calls[c].err = NotRegistered(<<"b">>)

\* C5: no adapter call, on a data group or on the meta-record, is in flight for
\* an operation whose store filter does not list the redis store, and such an
\* operation is answered without any.
C5_FilterRestricts ==
    /\ \A x \in inflight : x.owner = "call" => ~FilteredOut(calls[x.call].req)
    /\ \A c \in CallIds :
          (Accepted(calls[c]) /\ FilteredOut(calls[c].req))
          => /\ calls[c].phase = "delivered"
             /\ calls[c].metaWrites = 0
             /\ calls[c].result = EmptyResult

C5_Witness ==
    \E c \in CallIds :
        /\ Accepted(calls[c])
        /\ calls[c].req.store = StoreList(<<"Redis">>)
        /\ calls[c].phase = "delivered"
        /\ IsRegistered(inst[calls[c].inst], calls[c].req.identifier.s)

\* The registration calls of instance i that are in flight.
Registering(i) == {x \in inflight : x.owner = "ctor" /\ x.inst = i}

\* C6: a construction that starts when no registration is in flight leaves
\* every meta-record that was present at its start as it found it, and issues
\* no write to it.
C6_RegistrationIsIdempotent ==
    \A i \in Instances :
        (Constructed(i) /\ inst[i].quiet)
        => \A slot \in DOMAIN inst[i].seen :
              /\ slot \in DOMAIN hash
              /\ hash[slot] = inst[i].seen[slot]
              /\ \A x \in Registering(i) : x.cmd = "hset" => <<x.group, x.field>> # slot

\* The second of two constructions with the same service name and identifier
\* has completed, later than the first, and the record is the first's.
C6_Witness ==
    \E i, j \in Instances :
        /\ inst[i].status = "ready" /\ inst[j].status = "ready" /\ inst[j].quiet
        /\ inst[i].date < inst[j].date
        /\ inst[i].identifierSet = << <<"a">> >> /\ inst[j].identifierSet = << <<"a">> >>
        /\ <<servicesInfo, MetaField(ServiceName, <<"a">>)>> \in DOMAIN inst[j].seen
        /\ hash[<<servicesInfo, MetaField(ServiceName, <<"a">>)>>] = FormatDate(inst[i].date)

\* entry is id with whitespace around it.
Blanks(n) == [j \in 1..n |-> " "]
StripsTo(entry, id) ==
    \E m, n \in 0..Len(entry) : entry = Blanks(m) \o id \o Blanks(n)

\* C7: after construction the identifierSet of the instance holds exactly the
\* configured entries that are not blank, each without the whitespace around it.
C7_RegisteredIffConfigured ==
    \A i \in Instances :
        Constructed(i)
        => /\ \A id \in Range(inst[i].identifierSet) :
                 /\ id # <<>>
                 /\ ~IsBlankChar(id[1]) /\ ~IsBlankChar(id[Len(id)])
                 /\ \E entry \in Range(inst[i].config) : StripsTo(entry, id)
           /\ \A entry \in Range(inst[i].config) :
                 (\E n \in DOMAIN entry : ~IsBlankChar(entry[n]))
                 => \E id \in Range(inst[i].identifierSet) : StripsTo(entry, id)

C7_Witness ==
    \E i \in Instances :
        /\ Constructed(i)
        /\ inst[i].config = << <<" ">>, <<" ", "a", " ">> >>
        /\ inst[i].identifierSet = << <<"a">> >>

\* C8 as claimed: once its registration calls have all been answered, a
\* construction that met an adapter error on a registration lookup or on a
\* registration write has raised an error.
C8_AnyErrorRaises ==
    \A i \in Instances :
        ((inst[i].lookupFailed \/ inst[i].writeFailed) /\ Registering(i) = {})
        => inst[i].status = "raised"

\* C8 as amended: the construction raises an error exactly when a
\* registration lookup has failed; a failed registration write is ignored.
C8_LookupErrorRaises ==
    \A i \in Instances :
        /\ inst[i].lookupFailed => (inst[i].status = "raised" /\ inst[i].error = BackendError)
        /\ inst[i].status = "raised" => inst[i].lookupFailed

C8_Witness ==
    \E i, j \in Instances :
        /\ inst[i].writeFailed /\ ~inst[i].lookupFailed /\ inst[i].status = "ready"
        /\ inst[j].lookupFailed /\ inst[j].status = "raised"

\* The keys the listed group was known to hold when the listing started, if
\* nothing wrote or deleted any key of the group while it ran.
Undisturbed(call) == \A k \in DataKeys : call.expect[k] # Unknown
Present(call) == {k \in DataKeys : call.expect[k].t = "json"}

\* C9: readKeysAndValuesFromQueue over a group that holds the inserted keys
\* k1..kn, while nothing else modifies the group, delivers no error and
\* exactly one item per key, with the value inserted under that key.
C9_ListsEveryKeyWithItsValue ==
    \A c \in CallIds :
        (/\ calls[c].op = "readKeysAndValuesFromQueue"
         /\ Served(calls[c])
         /\ Undisturbed(calls[c])
         /\ Present(calls[c]) # {})
        => /\ calls[c].err = NoError
           /\ calls[c].result.redis = "list"
           /\ Len(calls[c].result.items) = Cardinality(Present(calls[c]))
           /\ Range(calls[c].result.items) =
                 {Item(calls[c].req, k, calls[c].expect[k]) : k \in Present(calls[c])}

C9_Witness ==
    \E c \in CallIds :
        /\ calls[c].op = "readKeysAndValuesFromQueue"
        /\ Served(calls[c])
        /\ Undisturbed(calls[c])
        /\ Present(calls[c]) = DataKeys
        /\ Len(calls[c].result.items) = Cardinality(DataKeys)

\* C10 as claimed: one readKeysAndValuesFromQueue over n >= 2 keys issues a
\* single write of the meta-record.
C10_SingleMetaWrite ==
    \A c \in CallIds :
        (/\ calls[c].op = "readKeysAndValuesFromQueue"
         /\ Served(calls[c])
         /\ Undisturbed(calls[c])
         /\ Cardinality(Present(calls[c])) >= 2)
        => calls[c].metaWrites = 1

\* C10 as amended: it issues one write of the meta-record per key read, n in all.
C10_OneMetaWritePerKey ==
    \A c \in CallIds :
        (/\ calls[c].op = "readKeysAndValuesFromQueue"
         /\ Served(calls[c])
         /\ Undisturbed(calls[c])
         /\ Cardinality(Present(calls[c])) >= 2)
        => calls[c].metaWrites = Cardinality(Present(calls[c]))

C10_Witness ==
    \E c \in CallIds :
        /\ calls[c].op = "readKeysAndValuesFromQueue"
        /\ Served(calls[c])
        /\ Undisturbed(calls[c])
        /\ Cardinality(Present(calls[c])) >= 2
        /\ calls[c].metaWrites = 2

\* A readKeysAndValuesFromQueue of instance i has not yet called back.
Listing(i) ==
    \E c \in CallIds :
        /\ calls[c].op = "readKeysAndValuesFromQueue"
        /\ calls[c].inst = i
        /\ calls[c].phase = "running"

\* C11: whenever no readKeysAndValuesFromQueue of an instance is waiting for
\* its callback (each has delivered it, with or without an error), the
\* redisReadDate of the instance is empty.
C11_OverrideClearedOnDelivery ==
    \A i \in Instances : ~Listing(i) => inst[i].redisReadDate = NoDate

\* A listing has delivered an error while one of its per-key reads is still in
\* flight, and the override is empty.
C11_Witness ==
    \E c \in CallIds :
        /\ calls[c].op = "readKeysAndValuesFromQueue"
        /\ calls[c].phase = "delivered"
        /\ calls[c].err = BackendError
        /\ calls[c].batch.set
        /\ \E x \in inflight : x.owner = "call" /\ x.call = c /\ x.sub = "inner"
        /\ ~Listing(calls[c].inst)
        /\ inst[calls[c].inst].redisReadDate = NoDate

\* A write or a delete invoked without a callback, with a valid request for a
\* registered identifier of the redis store.
Uncalled(call) ==
    /\ call.phase # "idle"
    /\ call.op \in WriteOps
    /\ call.callback = "undefined"
    /\ Invalid(call.op, call.req) = NoError
    /\ ~FilteredOut(call.req)
    /\ IsRegistered(inst[call.inst], call.req.identifier.s)

\* C12 as claimed: pushToQueue and deleteKeyFromQueue invoked with a valid
\* request and no callback raise an error to the caller only when a leg of
\* theirs has failed.
C12_UncalledWriteRaisesOnlyLegErrors ==
    \A c \in CallIds :
        (Uncalled(calls[c]) /\ calls[c].phase = "thrown") => calls[c].faulted

\* A valid pushToQueue without a callback has thrown 'Callback is expected and
\* must be a function'; no adapter call of it was issued.
C12_Witness ==
    \E c \in CallIds :
        /\ Uncalled(calls[c])
        /\ calls[c].op = "pushToQueue"
        /\ calls[c].phase = "thrown"
        /\ calls[c].err = CallbackExpected
        /\ ~calls[c].faulted
        /\ \A x \in inflight : ~(x.owner = "call" /\ x.call = c)

\* A field that is no string with a character other than whitespace.
Blank(x) == x.t # "string" \/ \A n \in DOMAIN x.s : IsBlankChar(x.s[n])

\* The reason for which a request fails the validation of its fields, NoError
\* when it does not: the request is missing or empty, the identifier is
\* blank, the key is blank where the operation needs one, the store filter is
\* no array or an empty one.
Reason(op, req) ==
    IF req.t # "object" \/ req = [NoRequest EXCEPT !.t = "object"] THEN QueueDataInvalid
    ELSE IF Blank(req.identifier) THEN IdentifierInvalid
    ELSE IF op \notin ListOps /\ Blank(req.key) THEN KeyInvalid
    ELSE IF req.store.t = "string" \/ (req.store.t = "array" /\ Len(req.store.a) = 0)
        THEN StoreInvalid
    ELSE NoError

\* C13: an operation invoked with a callback and a request that fails the
\* validation of its fields delivers the reason through the callback in the
\* step of its invocation, throws nothing, issues no adapter call and leaves
\* the backend and the instances as they were.
C13_InvalidRequestIsCalledBack ==
    [][\A c \in CallIds :
          (/\ calls[c].phase = "idle"
           /\ calls'[c].phase # "idle"
           /\ calls'[c].callback = "function"
           /\ Reason(calls'[c].op, calls'[c].req) # NoError)
          => /\ calls'[c].phase = "delivered"
             /\ calls'[c].err = Reason(calls'[c].op, calls'[c].req)
             /\ calls'[c].result = EmptyResult
             /\ hash' = hash
             /\ inst' = inst
             /\ inflight' = inflight]_vars

\* A readFromQueue without a key has called back with the reason.
C13_Witness ==
    \E c \in CallIds :
        /\ calls[c].op = "readFromQueue"
        /\ calls[c].callback = "function"
        /\ calls[c].req.t = "object"
        /\ ~Blank(calls[c].req.identifier)
        /\ Blank(calls[c].req.key)
        /\ calls[c].phase = "delivered"
        /\ calls[c].err = KeyInvalid
        /\ \A x \in inflight : ~(x.owner = "call" /\ x.call = c)

\* The timestamp writes in flight that the per-key reads of call c issued.
BatchStamps(c) ==
    {x \in inflight : x.owner = "call" /\ x.call = c /\ x.sub = "inner" /\ x.cmd = "hset"}

\* C15 as claimed: every timestamp write issued by the per-key reads of a
\* readKeysAndValuesFromQueue that no other operation overlaps carries the
\* override its key listing set, also after one of its reads has failed.
C15_BatchSharesOneTimestamp ==
    \A c \in CallIds :
        (calls[c].op = "readKeysAndValuesFromQueue" /\ ~calls[c].overlapped)
        => \A x \in BatchStamps(c) : x.value = FormatDate(calls[c].batch.at)

\* One per-key read of a listing has failed, the listing has delivered the
\* error, and the read that was still in flight has since issued its timestamp
\* write with the time of the clock, later than the override of the batch.
C15_Witness ==
    \E c \in CallIds :
        /\ calls[c].op = "readKeysAndValuesFromQueue"
        /\ ~calls[c].overlapped
        /\ calls[c].faulted
        /\ calls[c].phase = "delivered" /\ calls[c].err = BackendError
        /\ \E x \in BatchStamps(c) :
              /\ ~x.over.set
              /\ x.value = FormatDate(x.at)
              /\ x.at > calls[c].batch.at

\* The timestamp writes in flight of the readFromQueue calls of the callers.
DirectStamps ==
    {x \in inflight :
        /\ x.owner = "call" /\ x.sub = "outer" /\ x.cmd = "hset"
        /\ calls[x.call].op = "readFromQueue"}

\* C16 as claimed: the timestamp write of a readFromQueue that a caller
\* invoked carries the time of the clock when it was issued.
C16_DirectReadStampsOwnTime ==
    \A x \in DirectStamps : x.value = FormatDate(x.at)

\* A caller's readFromQueue has issued its timestamp write with the override
\* of another caller's readKeysAndValuesFromQueue, which is still running and
\* set it at an earlier time.
C16_Witness ==
    \E x \in DirectStamps :
        \E c \in CallIds \ {x.call} :
            /\ calls[c].op = "readKeysAndValuesFromQueue"
            /\ calls[c].phase = "running"
            /\ calls[c].inst = x.inst
            /\ calls[c].batch.set
            /\ x.over = calls[c].batch
            /\ x.value = FormatDate(calls[c].batch.at)
            /\ calls[c].batch.at < x.at

\* A per-key read of call c has issued a timestamp write x with the override
\* of the other listing d, which differs from the one c set.
StampedWithOthers(c, d, x) ==
    /\ x.over.set
    /\ x.over = calls[d].batch
    /\ x.over # calls[c].batch
    /\ x.value = FormatDate(calls[d].batch.at)

\* A per-key read of call c has issued a timestamp write x with the time of
\* the clock, later than the override c set: the slot was empty.
StampedWithNow(c, x) ==
    /\ ~x.over.set
    /\ x.value = FormatDate(x.at)
    /\ x.at > calls[c].batch.at

\* C17: a timestamp write of a per-key read carries something else than the
\* override of its own listing only if another operation overlapped the
\* listing or one of the listing's adapter calls failed; with two listings
\* beside each other on one instance it does happen (C17_Witness).
C17_StrayStampNeedsOverlapOrFailure ==
    \A c \in CallIds :
        calls[c].op = "readKeysAndValuesFromQueue"
        => \A x \in BatchStamps(c) :
              x.value # FormatDate(calls[c].batch.at)
              => calls[c].overlapped \/ calls[c].faulted

\* Two listings on one instance, none of whose adapter calls failed: a per-key
\* read of one has stamped with the other's override, or with the time of the
\* clock because the other has cleared the slot.
C17_Witness ==
    \E c \in CallIds, d \in CallIds :
        /\ c # d
        /\ calls[c].op = "readKeysAndValuesFromQueue" /\ ~calls[c].faulted
        /\ calls[d].op = "readKeysAndValuesFromQueue" /\ ~calls[d].faulted
        /\ calls[c].inst = calls[d].inst
        /\ calls[d].batch.set
        /\ \E x \in BatchStamps(c) : StampedWithOthers(c, d, x) \/ StampedWithNow(c, x)

\* The timestamp writes in flight that a readFromQueue issued, invoked by a
\* caller or per key by readKeysAndValuesFromQueue.
ReadStamps == {x \in inflight : x.owner = "call" /\ x.cmd = "hset"}

\* C18: readFromQueue writes the meta-record of the identifier if and only
\* if its data read answered a value.  The write is issued once the data read
\* has been answered, on the field serviceName_identifier of
\* registeredServices, and carries the override if one was set when it was
\* issued, the time of the clock otherwise.  (No data field changes while
\* the reads of this specification run, so that the field a read has asked
\* for holds now what it held then.)
C18_StampsIffValueRead ==
    /\ \A x \in ReadStamps :
          /\ x.carry.t = "json"
          /\ x.carry = getHashObject(hash, calls[x.call].req.identifier.s, x.key)
          /\ x.group = servicesInfo
          /\ x.field = inst[x.inst].serviceName \o <<"_">> \o calls[x.call].req.identifier.s
          /\ x.value = FormatDate(IF x.over.set THEN x.over.at ELSE x.at)
          /\ \A y \in inflight :
                ~(y.owner = "call" /\ y.call = x.call /\ y.cmd = "hget" /\ y.key = x.key)
    /\ \A c \in CallIds :
          (/\ calls[c].op = "readFromQueue"
           /\ calls[c].phase = "delivered"
           /\ calls[c].err = NoError)
          => calls[c].metaWrites =
                IF getHashObject(hash, calls[c].req.identifier.s, calls[c].req.key.s) = Nil
                THEN 0 ELSE 1

\* A readFromQueue that nothing overlapped has read a value at time 1, its
\* timestamp write has been answered, and the meta-record holds time 1.
C18_Witness ==
    \E c \in CallIds :
        /\ calls[c].op = "readFromQueue"
        /\ calls[c].phase = "delivered"
        /\ ~calls[c].faulted /\ ~calls[c].overlapped
        /\ calls[c].result.redis = "value"
        /\ calls[c].metaWrites = 1
        /\ now = 1
        /\ hash[<<servicesInfo, MetaField(ServiceName, <<"a">>)>>] = FormatDate(1)

\* A caller's readFromQueue whose data read was answered with a value and
\* whose timestamp write then failed: it issued the write, and an adapter
\* call of it failed, which was not the data read.
StampFailed(call) ==
    /\ call.op = "readFromQueue"
    /\ call.phase = "delivered"
    /\ call.metaWrites = 1
    /\ call.faulted

MetaSlot(i, id) == <<servicesInfo, inst[i].serviceName \o <<"_">> \o id>>

\* C20 as claimed: once the registration of an instance has finished without
\* an error raised, registeredServices holds a timestamp for every identifier
\* of its identifierSet.
C20_RegisteredIdentifiersHaveRecords ==
    \A i \in Instances :
        inst[i].status = "ready"
        => \A id \in Range(inst[i].identifierSet) :
              /\ MetaSlot(i, id) \in DOMAIN hash
              /\ hash[MetaSlot(i, id)].t = "date"

\* A registration has finished, nothing was raised, and an identifier of the
\* identifierSet has no record: its registration write had failed.
C20_Witness ==
    \E i \in Instances :
        /\ inst[i].status = "ready"
        /\ inst[i].error = NoError
        /\ Registering(i) = {}
        /\ inst[i].writeFailed
        /\ \E id \in Range(inst[i].identifierSet) : MetaSlot(i, id) \notin DOMAIN hash

\* The operations that are to leave the meta-records alone.
Unstamped == {"pushToQueue", "readKeysFromQueue", "deleteKeyFromQueue"}

\* C21 as claimed: a step that completes a pushToQueue, a readKeysFromQueue or
\* a deleteKeyFromQueue of a registered identifier leaves every field of the
\* group registeredServices with the value it had before the step.
C21_UnstampedOpsKeepMetaRecords ==
    [][\A c \in CallIds :
          (/\ calls[c].phase = "running"
           /\ calls[c].op \in Unstamped
           /\ IsRegistered(inst[calls[c].inst], calls[c].req.identifier.s)
           /\ calls'[c].phase = "delivered")
          => \A slot \in DOMAIN Registered(hash) :
                slot \in DOMAIN hash' /\ hash'[slot] = hash[slot]]_vars

\* The instance is registered for the identifiers a and registeredServices,
\* and a pushToQueue of the latter has completed without error: the
\* meta-record of a holds the pushed value.
C21_Witness ==
    \E c \in CallIds :
        /\ calls[c].op = "pushToQueue"
        /\ calls[c].phase = "delivered"
        /\ calls[c].err = NoError
        /\ calls[c].req.identifier.s = servicesInfo
        /\ inst[calls[c].inst].status = "ready"
        /\ inst[calls[c].inst].identifierSet = << <<"a">>, servicesInfo >>
        /\ hash[<<servicesInfo, MetaField(ServiceName, <<"a">>)>>] = Serialize(Obj("v1", "array"))

\* C22 as claimed: the constructor hands the instance over only when its
\* registration has completed, so no adapter call of a public operation on an
\* instance is in flight together with a registration call of that instance.
C22_NoOperationDuringRegistration ==
    \A x \in inflight, y \in inflight :
        (x.owner = "ctor" /\ y.owner = "call") => x.inst # y.inst

\* A pushToQueue on the instance has completed without error while a
\* registration lookup of the instance is still unanswered.
C22_Witness ==
    \E c \in CallIds, x \in inflight :
        /\ calls[c].op = "pushToQueue"
        /\ calls[c].phase = "delivered"
        /\ calls[c].err = NoError
        /\ calls[c].req.identifier.s = <<"a">>
        /\ x.owner = "ctor" /\ x.cmd = "hget" /\ x.inst = calls[c].inst
        /\ inst[x.inst].status = "registering"

\* C23 as claimed: the identifierSet of a constructed instance holds no
\* identifier twice.
C23_IdentifierSetHasNoDuplicates ==
    \A i \in Instances :
        Constructed(i)
        => \A m, n \in DOMAIN inst[i].identifierSet :
              inst[i].identifierSet[m] = inst[i].identifierSet[n] => m = n

\* The configured list has two entries that are equal once trimmed, and the
\* identifierSet holds the identifier twice.
C23_Witness ==
    \E i \in Instances :
        /\ Constructed(i)
        /\ inst[i].config = << <<"a">>, <<" ", "a", " ">> >>
        /\ inst[i].identifierSet = << <<"a">>, <<"a">> >>

\* C24: once the constructor has returned an instance, no step changes its
\* Registration Table: the instance keeps its redis entry, its serviceName and
\* its identifierSet, whatever operation starts, is answered or fails.
C24_RegistrationTableIsFrozen ==
    [][\A i \in Instances :
          Constructed(i)
          => /\ inst'[i].status \in {"registering", "ready", "raised"}
             /\ inst'[i].serviceName = inst[i].serviceName
             /\ inst'[i].identifierSet = inst[i].identifierSet]_vars

\* A readKeysAndValuesFromQueue has delivered an item after the registration
\* completed, and the table is the one the constructor built.
C24_Witness ==
    \E c \in CallIds :
        /\ calls[c].op = "readKeysAndValuesFromQueue"
        /\ calls[c].phase = "delivered"
        /\ calls[c].err = NoError
        /\ Len(calls[c].result.items) = 1
        /\ inst[calls[c].inst].status = "ready"
        /\ inst[calls[c].inst].serviceName = ServiceName
        /\ inst[calls[c].inst].identifierSet = << <<"a">>, servicesInfo >>

\* The request has an identifier, a key where the operation takes one, and a
\* store filter that is an array with no entry.
EmptyFilter(call) ==
    /\ call.req.t = "object"
    /\ ~Blank(call.req.identifier)
    /\ call.op \in ListOps \/ ~Blank(call.req.key)
    /\ call.req.store.t = "array"
    /\ Len(call.req.store.a) = 0

\* C25: each of the five operations, invoked with a callback and a store filter
\* that is present but empty, has delivered the error of the store validation
\* and an empty result and has no adapter call and no timestamp write.
C25_EmptyFilterIsInvalid ==
    \A c \in CallIds :
        (calls[c].phase # "idle" /\ calls[c].callback = "function" /\ EmptyFilter(calls[c]))
        => /\ calls[c].phase = "delivered"
           /\ calls[c].err = StoreInvalid
           /\ calls[c].result = EmptyResult
           /\ calls[c].metaWrites = 0
           /\ \A x \in inflight : ~(x.owner = "call" /\ x.call = c)

\* A pushToQueue of a registered identifier with a valid value and an empty
\* store filter has been answered with the error of the store validation.
C25_Witness ==
    \E c \in CallIds :
        /\ calls[c].op = "pushToQueue"
        /\ calls[c].req = Request(Str(<<"a">>), Str(<<"k">>), Obj("v1", "array"), StoreList(<<>>))
        /\ calls[c].phase = "delivered"
        /\ calls[c].err = StoreInvalid
        /\ \A slot \in DOMAIN hash : slot[1] # <<"a">>

\* C26 as claimed: under every interleaving of constructions, a meta-record
\* that exists is not replaced by a registration write: it keeps its timestamp.
C26_RegistrationNeverOverwrites ==
    [][\A x \in inflight :
          (x.owner = "ctor" /\ x.cmd = "hset" /\ x \notin inflight')
          => \A slot \in DOMAIN Registered(hash) :
                slot \in DOMAIN hash' /\ hash'[slot] = hash[slot]]_vars

\* Two constructions with the same service name and identifier, neither of
\* which found the record, have both written it, and the record holds the
\* time of the older one: its write replaced the newer one's.
C26_Witness ==
    \E i, j \in Instances :
        /\ inst[i].status = "ready" /\ inst[j].status = "ready"
        /\ inst[i].identifierSet = << <<"a">> >> /\ inst[j].identifierSet = << <<"a">> >>
        /\ inst[i].date < inst[j].date
        /\ inst[i].seen = << >> /\ inst[j].seen = << >>
        /\ ~inst[i].writeFailed /\ ~inst[j].writeFailed
        /\ ~inst[i].lookupFailed /\ ~inst[j].lookupFailed
        /\ Registering(i) = {} /\ Registering(j) = {}
        /\ hash[<<servicesInfo, MetaField(ServiceName, <<"a">>)>>] = FormatDate(inst[i].date)

\* C27: an operation invoked with a callback function never throws, has
\* invoked the callback once when it has delivered and not before, and never
\* invokes it again; and, the adapter answering every call, an operation that
\* waits for the adapter comes to deliver.
C27_CallbackExactlyOnce ==
    /\ [](\A c \in CallIds :
             (calls[c].phase # "idle" /\ calls[c].callback = "function")
             => /\ calls[c].phase \in {"running", "delivered"}
                /\ calls[c].callbacks = (IF calls[c].phase = "delivered" THEN 1 ELSE 0))
    /\ \A c \in CallIds :
          (calls[c].phase = "running") ~> (calls[c].phase = "delivered" /\ calls[c].callbacks = 1)

\* A readKeysAndValuesFromQueue with two keys, both of whose reads failed, has
\* ended: the callback was invoked once, with the error.
C27_Witness ==
    \E c \in CallIds :
        /\ calls[c].op = "readKeysAndValuesFromQueue"
        /\ calls[c].batch.set
        /\ calls[c].left = 2
        /\ calls[c].phase = "delivered"
        /\ calls[c].err = BackendError
        /\ calls[c].callbacks = 1
        /\ \A x \in inflight : ~(x.owner = "call" /\ x.call = c)

\* C28 as claimed: once an operation has invoked its callback, no later step
\* changes the result object it passed.
C28_ResultIsFinal ==
    [][\A c \in CallIds :
          (calls[c].phase = "delivered" /\ calls'[c].phase = "delivered")
          => calls'[c].result = calls[c].result]_vars

\* A readKeysAndValuesFromQueue delivered the error of one key's read with a
\* result that had no item; the read of another key ended afterwards, and the
\* result the caller holds now has its item.
C28_Witness ==
    \E c \in CallIds :
        /\ calls[c].op = "readKeysAndValuesFromQueue"
        /\ calls[c].phase = "delivered"
        /\ calls[c].err = BackendError
        /\ calls[c].callbacks = 1
        /\ calls[c].handed = 0
        /\ Len(calls[c].result.items) = 1
        /\ \A x \in inflight : ~(x.owner = "call" /\ x.call = c)

\* The request passes the validation of its operation and is for the redis
\* store, and its identifier has whitespace around an identifier of the
\* instance's identifierSet.
Padded(call) ==
    /\ Reason(call.op, call.req) = NoError
    /\ call.op = "pushToQueue" => (call.req.value.t = "object" /\ call.req.value.targetType = "array")
    /\ ~FilteredOut(call.req)
    /\ Trim(call.req.identifier.s) # call.req.identifier.s
    /\ \E n \in DOMAIN inst[call.inst].identifierSet :
          inst[call.inst].identifierSet[n] = Trim(call.req.identifier.s)

\* C29: an operation invoked with a callback and an otherwise valid request
\* whose identifier carries leading or trailing whitespace is answered with
\* the 'not registered' error that names the identifier as given, and issues
\* no adapter call, although the trimmed identifier is registered.
C29_PaddedIdentifierIsNotRegistered ==
    \A c \in CallIds :
        (calls[c].phase # "idle" /\ calls[c].callback = "function" /\ Padded(calls[c]))
        => /\ calls[c].phase = "delivered"
           /\ calls[c].err = NotRegistered(calls[c].req.identifier.s)
           /\ calls[c].result = EmptyResult
           /\ calls[c].metaWrites = 0
           /\ \A x \in inflight : ~(x.owner = "call" /\ x.call = c)

\* A readFromQueue of the identifier ' a' on the instance registered for 'a'
\* has been answered with the 'not registered' error.
C29_Witness ==
    \E c \in CallIds :
        /\ calls[c].op = "readFromQueue"
        /\ calls[c].req.identifier.s = <<" ", "a">>
        /\ inst[calls[c].inst].identifierSet = << <<"a">> >>
        /\ calls[c].phase = "delivered"
        /\ calls[c].err = NotRegistered(<<" ", "a">>)
        /\ \A x \in inflight : ~(x.owner = "call" /\ x.call = c)

\* The request passes the validation of its operation, and its store filter
\* has entries, none of which is the name of the configured store as the
\* code spells it.
NamesNoStore(call) ==
    /\ Reason(call.op, call.req) = NoError
    /\ call.op = "pushToQueue" => (call.req.value.t = "object" /\ call.req.value.targetType = "array")
    /\ call.req.store.t = "array"
    /\ Len(call.req.store.a) > 0
    /\ \A n \in DOMAIN call.req.store.a : call.req.store.a[n] \in {"Redis", "mongo"}

\* C30: an operation invoked with a callback and a valid request whose store
\* filter names only an unknown store, or the configured one in another letter
\* case, has invoked its callback once with no error and an empty result, and
\* has no adapter call and no timestamp write.
C30_UnknownStoreIsSilent ==
    \A c \in CallIds :
        (calls[c].phase # "idle" /\ calls[c].callback = "function" /\ NamesNoStore(calls[c]))
        => /\ calls[c].phase = "delivered"
           /\ calls[c].err = NoError
           /\ calls[c].result = EmptyResult
           /\ calls[c].callbacks = 1
           /\ calls[c].metaWrites = 0
           /\ \A x \in inflight : ~(x.owner = "call" /\ x.call = c)

\* A pushToQueue with the store filter ['mongo'] has been answered with no
\* error, and the field it was to write is not in the backend.
C30_Witness ==
    \E c \in CallIds :
        /\ calls[c].op = "pushToQueue"
        /\ calls[c].req = Request(Str(<<"a">>), Str(<<"k">>), Obj("v1", "array"), StoreList(<<"mongo">>))
        /\ calls[c].phase = "delivered"
        /\ calls[c].err = NoError
        /\ calls[c].result = EmptyResult
        /\ <<<<"a">>, <<"k">>>> \notin DOMAIN hash

\* Callers c and d hold the answers of the readKeysAndValuesFromQueue of
\* src/index.js and of part_000 to the same valid request, every step of both
\* has ended, and no adapter call of either failed.
BothAnswered(c, d) ==
    /\ calls[c].op = "readKeysAndValuesFromQueue" /\ calls[d].op = OldList
    /\ calls[c].phase = "delivered" /\ calls[d].phase = "delivered"
    /\ calls[c].req = calls[d].req
    /\ Reason("readKeysAndValuesFromQueue", calls[c].req) = NoError
    /\ ~calls[c].faulted /\ ~calls[d].faulted
    /\ \A x \in inflight : ~(x.owner = "call" /\ x.call \in {c, d})

\* C31 as claimed: over the same backend contents and for the same valid
\* request, with or without a store filter, the readKeysAndValuesFromQueue of
\* part_000 and that of src/index.js deliver the same error and the same result.
C31_OldAndNewListingsAgree ==
    \A c, d \in CallIds :
        BothAnswered(c, d)
        => /\ calls[c].err = calls[d].err
           /\ calls[c].result = calls[d].result

\* Both were asked for the group a, which holds k and m, with no store filter:
\* src/index.js delivered no error and the two items, part_000 the error of the
\* store validation and an empty list, without having read any key.
C31_Witness ==
    \E c, d \in CallIds :
        /\ BothAnswered(c, d)
        /\ calls[c].req = Request(Str(<<"a">>), Undefined, NoValue, NoStore)
        /\ calls[c].err = NoError
        /\ Len(calls[c].result.items) = 2
        /\ calls[d].err = StoreInvalid
        /\ calls[d].result = ListResult(<<>>)
        /\ calls[d].metaWrites = 0

====
